---- MODULE Spec2Model ----
\* Model of the aimakerspace vector store, text splitter and retrieval code
\* (02_Embeddings_and_RAG): CharacterTextSplitter, VectorDatabase and
\* EnhancedRAGPipeline. A text is the sequence of its characters.
EXTENDS Integers, Sequences, FiniteSets, TLC

VARIABLES
    splitter,       \* the caller's CharacterTextSplitter object, if one was constructed
    vectors,        \* VectorDatabase.vectors: the dict, as its items in insertion order
    text_to_key,    \* VectorDatabase.text_to_key: the dict, as its items in insertion order
    chunk_counter,  \* VectorDatabase.chunk_counter
    inserted,       \* history: for each key, the vector of the latest insert(key, ...) call
    ingested,       \* history: the (key, text) pairs abuild_from_list has stored, in order
    stats,          \* EnhancedRAGPipeline.stats
    calls,          \* history: the calls made of query and of chat_model.run, the
                    \* ingest calls that succeeded, and the result of the last
                    \* get_database_stats since the store changed
    tasks,          \* the abuild_from_list calls in flight, with their local variables
    op              \* the last call made and what it returned or raised

vars == <<splitter, vectors, text_to_key, chunk_counter, inserted, ingested, stats,
          calls, tasks, op>>

\* ---------------------------------------------------------------- bounds
MaxLen == 4         \* longest generated text handed to split
MaxChunk == 4       \* largest chunk_size / chunk_overlap tried
MaxRecords == 3     \* most records held by the store
MaxK == 3           \* largest k handed to search
MaxTexts == 2       \* most texts in one abuild_from_list call
MaxDocs == 2        \* most documents (files of a directory, URLs) in one ingest call
MaxIngests == 2     \* most successful ingest calls of a pipeline
MaxQueries == 2     \* most query calls of a pipeline
MaxCalls == 2       \* most abuild_from_list calls in flight on one store

\* ---------------------------------------------------------------- helpers
Min(a, b) == IF a < b THEN a ELSE b
Abs(x) == IF x < 0 THEN -x ELSE x
Sgn(x) == IF x < 0 THEN -1 ELSE IF x > 0 THEN 1 ELSE 0
Reverse(s) == [i \in 1..Len(s) |-> s[Len(s) + 1 - i]]
\* s[:k] for k >= 0
Take(s, k) == SubSeq(s, 1, Min(k, Len(s)))
\* s[i:j] for 0 <= i, 0 <= j (0-based, end exclusive, clamped like a Python slice)
PySlice(s, i, j) == SubSeq(s, i + 1, Min(j, Len(s)))

\* ================================================================ text_utils
Alphabet == {"A", "B"}
ExampleText == <<"A", "B", "C", "D", "E", "F", "G", "H", "I", "J">>
Texts == UNION {[1..n -> Alphabet] : n \in 0..MaxLen} \cup {ExampleText}
SizeRange == (-1)..MaxChunk

NoSplitter == [constructed |-> FALSE, chunk_size |-> 0, chunk_overlap |-> 0]

\* the assert of __init__ with the comparison slipped to >=
CharacterTextSplitter_init_ge(chunk_size, chunk_overlap) ==
    IF chunk_size >= chunk_overlap
    THEN [raised |-> "",
          obj |-> <<[constructed |-> TRUE, chunk_size |-> chunk_size,
                     chunk_overlap |-> chunk_overlap]>>]
    ELSE [raised |-> "AssertionError", obj |-> <<>>]

\* CharacterTextSplitter.__init__: the assert, then the two assignments
CharacterTextSplitter_init(chunk_size, chunk_overlap) ==
    IF chunk_size > chunk_overlap
    THEN [raised |-> "",
          obj |-> <<[constructed |-> TRUE, chunk_size |-> chunk_size,
                     chunk_overlap |-> chunk_overlap]>>]
    ELSE [raised |-> "AssertionError", obj |-> <<>>]

\* the loop of split: for i in range(i, len(text), stride): chunks.append(text[i:i+size])
RECURSIVE split_loop(_, _, _, _)
split_loop(text, i, chunk_size, stride) ==
    IF i >= Len(text) THEN <<>>
    ELSE <<PySlice(text, i, i + chunk_size)>>
         \o split_loop(text, i + stride, chunk_size, stride)

\* split with the window cut one short (text[i : i + chunk_size - 1])
split_short(self, text) ==
    split_loop(text, 0, self.chunk_size - 1, self.chunk_size - self.chunk_overlap)

\* split that drops a window no longer than chunk_overlap (text its predecessor holds)
RECURSIVE split_loop_drop(_, _, _, _, _)
split_loop_drop(text, i, chunk_size, stride, overlap) ==
    IF i >= Len(text) \/ Len(text) - i <= overlap THEN <<>>
    ELSE <<PySlice(text, i, i + chunk_size)>>
         \o split_loop_drop(text, i + stride, chunk_size, stride, overlap)
split_drop(self, text) ==
    split_loop_drop(text, 0, self.chunk_size, self.chunk_size - self.chunk_overlap,
                    self.chunk_overlap)

\* CharacterTextSplitter.split
split(self, text) ==
    split_loop(text, 0, self.chunk_size, self.chunk_size - self.chunk_overlap)

\* CharacterTextSplitter.split_texts
RECURSIVE split_texts(_, _)
split_texts(self, texts) ==
    IF texts = <<>> THEN <<>>
    ELSE split(self, Head(texts)) \o split_texts(self, Tail(texts))

\* ---- TextFileLoader. A path is what the file system holds there: kind is
\* "file" (a .txt or .pdf file), "dir" or "invalid" (anything else, or a PDF
\* that cannot be read: load raises ValueError); docs are the files read, in
\* the order read, each with its name, type and content.
\* DocumentMetadata of one document; set_content_hash is the md5 of the content,
\* kept as the content it stands for
DocumentMetadata(doc) ==
    [kind |-> "DocumentMetadata", obj |-> 0, file_type |-> doc.file_type,
     filename |-> doc.filename, content_hash |-> <<doc.content>>]
\* TextFileLoader.load_documents, with loader.metadata beside the documents
load_documents(path) ==
    IF path.kind = "invalid"
    THEN [raised |-> TRUE, documents |-> <<>>, metadata |-> <<>>]
    ELSE [raised |-> FALSE,
          documents |-> [i \in 1..Len(path.docs) |-> path.docs[i].content],
          metadata |-> [i \in 1..Len(path.docs) |-> DocumentMetadata(path.docs[i])]]

\* ================================================================ vectordatabase
\* A score is the real number sgn(num) * sqrt(|num| / den), kept exact; the float
\* nan (0.0 / 0.0 in numpy arithmetic) is a value of its own.
NaN == [nan |-> TRUE, num |-> 0, den |-> 0]
Real(signed_square) == [nan |-> FALSE, num |-> signed_square, den |-> 1]
\* x < y on floats: False whenever either side is nan
ScoreLT(x, y) == ~x.nan /\ ~y.nan /\ x.num * y.den < y.num * x.den

RECURSIVE SumTo(_, _)
SumTo(f, n) == IF n = 0 THEN 0 ELSE f[n] + SumTo(f, n - 1)
\* np.dot(a, b)
Dot(a, b) == SumTo([i \in 1..Len(a) |-> a[i] * b[i]], Len(a))
\* np.linalg.norm(a) squared
NormSq(a) == Dot(a, a)
VecSub(a, b) == [i \in 1..Len(a) |-> a[i] - b[i]]

\* cosine_similarity: dot / (norm_a * norm_b); 0 / 0.0 is nan
cosine_similarity(vector_a, vector_b) ==
    LET dot_product == Dot(vector_a, vector_b)
        norms_sq == NormSq(vector_a) * NormSq(vector_b)
    IN IF norms_sq = 0 THEN NaN
       ELSE [nan |-> FALSE, num |-> Sgn(dot_product) * dot_product * dot_product,
             den |-> norms_sq]

\* euclidean_distance: np.linalg.norm(a - b)
euclidean_distance(vector_a, vector_b) == Real(NormSq(VecSub(vector_a, vector_b)))

\* manhattan_distance: np.sum(np.abs(a - b))
manhattan_distance(vector_a, vector_b) ==
    LET d == VecSub(vector_a, vector_b)
        m == SumTo([i \in 1..Len(d) |-> Abs(d[i])], Len(d))
    IN Real(m * m)

\* a scoring function of the caller's, handed to search in place of a metric name
dot_product_score(vector_a, vector_b) ==
    LET d == Dot(vector_a, vector_b) IN Real(Sgn(d) * d * d)

\* Python values of the distance_measure and file_type_filter parameters
PyNone == [tag |-> "None", val |-> ""]
PyStr(s) == [tag |-> "str", val |-> s]
PyCallable(f) == [tag |-> "callable", val |-> f]
Truthy(v) == ~(v.tag = "None" \/ (v.tag = "str" /\ v.val = ""))

\* calling a scoring function object
Call(f, a, b) ==
    CASE f = "cosine_similarity" -> cosine_similarity(a, b)
      [] f = "euclidean_distance" -> euclidean_distance(a, b)
      [] f = "manhattan_distance" -> manhattan_distance(a, b)
      [] f = "dot_product_score" -> dot_product_score(a, b)

\* self.distance_functions.get(name, cosine_similarity)
distance_functions_get(name) ==
    CASE name = "cosine" -> "cosine_similarity"
      [] name = "euclidean" -> "euclidean_distance"
      [] name = "manhattan" -> "manhattan_distance"
      [] OTHER -> "cosine_similarity"

\* search, lines 61-66: the scoring function chosen for distance_measure
distance_func_of(distance_measure) ==
    IF distance_measure.tag = "None" THEN "cosine_similarity"
    ELSE IF distance_measure.tag = "str" THEN distance_functions_get(distance_measure.val)
    ELSE distance_measure.val

\* the sort direction with every call sorted descending
reverse_always(distance_measure) == TRUE

\* the sort direction with a scoring function of the caller's sorted like cosine
reverse_callable_descending(distance_measure) ==
    \/ distance_measure = PyStr("cosine")
    \/ distance_measure = PyNone
    \/ distance_measure.tag = "callable"

\* search, line 80: reverse = distance_measure in ['cosine', None] or (isinstance(...) and == 'cosine')
reverse_of(distance_measure) ==
    \/ distance_measure = PyStr("cosine")
    \/ distance_measure = PyNone
    \/ (distance_measure.tag = "str" /\ distance_measure.val = "cosine")

\* ---- sorted(scores, key=lambda x: x[1], reverse=reverse) as CPython's list.sort
\* does it for fewer than 64 items: one run found by count_run, then binarysort.
RECURSIVE RunEnd(_, _, _)
RunEnd(a, i, descending) ==
    IF i > Len(a) THEN Len(a)
    ELSE IF ScoreLT(a[i].score, a[i - 1].score) = descending
         THEN RunEnd(a, i + 1, descending)
         ELSE i - 1
count_run(a) ==
    LET descending == ScoreLT(a[2].score, a[1].score) IN
    [n |-> RunEnd(a, 3, descending), descending |-> descending]
RECURSIVE BinSearch(_, _, _, _)
BinSearch(a, pivot, l, r) ==
    IF l >= r THEN l
    ELSE LET p == l + ((r - l) \div 2) IN
         IF ScoreLT(pivot.score, a[p + 1].score)
         THEN BinSearch(a, pivot, l, p)
         ELSE BinSearch(a, pivot, p + 1, r)
RECURSIVE binarysort(_, _)
binarysort(a, start) ==
    IF start >= Len(a) THEN a
    ELSE LET pivot == a[start + 1]
             l == BinSearch(a, pivot, 0, start)
         IN binarysort(SubSeq(a, 1, l) \o <<pivot>> \o SubSeq(a, l + 1, start)
                       \o SubSeq(a, start + 2, Len(a)), start + 1)

PySorted(scores, reverse) ==
    LET a0 == IF reverse THEN Reverse(scores) ELSE scores
        s == IF Len(a0) < 2 THEN a0
             ELSE LET run == count_run(a0)
                      a1 == IF run.descending
                            THEN Reverse(SubSeq(a0, 1, run.n))
                                 \o SubSeq(a0, run.n + 1, Len(a0))
                            ELSE a0
                  IN binarysort(a1, run.n)
    IN IF reverse THEN Reverse(s) ELSE s

\* ---- metadata dicts: the keys the code reads; Absent marks a key the dict lacks
\* chunk_index is <<>> while the dict has no such key (or holds None), else <<i>>
Absent == "<absent>"
\* content_hash likewise: <<>> or <<the text hashed>>
EmptyDict == [file_type |-> Absent, chunk_index |-> <<>>, filename |-> Absent,
              content_hash |-> <<>>]
\* metadata.get('file_type'): None when the key is absent
get_file_type(metadata) ==
    IF metadata.file_type = Absent THEN PyNone ELSE PyStr(metadata.file_type)

\* the filter test that lets records without a file_type through
skipped_unless_untyped(file_type_filter, metadata) ==
    /\ Truthy(file_type_filter)
    /\ metadata.file_type # Absent
    /\ get_file_type(metadata) # file_type_filter

\* search, line 72: if file_type_filter and metadata.get('file_type') != file_type_filter: continue
skipped(file_type_filter, metadata) ==
    Truthy(file_type_filter) /\ get_file_type(metadata) # file_type_filter

\* search, lines 69-76: the (key, score, metadata) of every record not skipped, in dict order
RECURSIVE score_loop(_, _, _, _)
score_loop(items, query_vector, distance_func, file_type_filter) ==
    IF items = <<>> THEN <<>>
    ELSE LET it == Head(items)
             rest == score_loop(Tail(items), query_vector, distance_func, file_type_filter)
         IN IF skipped(file_type_filter, it.metadata) THEN rest
            ELSE <<[key |-> it.key, score |-> Call(distance_func, query_vector, it.vector),
                    metadata |-> it.metadata, oid |-> it.oid]>> \o rest

\* search cutting one short: [:k-1]
search_short(items, query_vector, k, distance_measure, file_type_filter) ==
    Take(PySorted(score_loop(items, query_vector, distance_func_of(distance_measure),
                             file_type_filter),
                  reverse_of(distance_measure)), IF k > 0 THEN k - 1 ELSE 0)

\* VectorDatabase.search
search(items, query_vector, k, distance_measure, file_type_filter) ==
    Take(PySorted(score_loop(items, query_vector, distance_func_of(distance_measure),
                             file_type_filter),
                  reverse_of(distance_measure)), k)

\* ---- the store's dicts, as sequences of items in insertion order
Keys(items) == {items[i].key : i \in 1..Len(items)}
IndexOf(items, key) == CHOOSE i \in 1..Len(items) : items[i].key = key
\* d[key] = entry that leaves an existing key as it is (setdefault)
DictSet_keep_first(items, key, entry) ==
    IF key \in Keys(items) THEN items ELSE Append(items, entry)
\* d[key] = entry: an existing key keeps its place, a new key goes last
DictSet(items, key, entry) ==
    IF key \in Keys(items)
    THEN [items EXCEPT ![IndexOf(items, key)] = entry]
    ELSE Append(items, entry)
\* the identity of a metadata dict is its oid; oids are renamed to the place of the
\* first record holding the object, so that equal stores are equal states
Canonical(items) ==
    [i \in 1..Len(items) |->
        [items[i] EXCEPT !.oid =
            CHOOSE j \in 1..Len(items) :
                /\ items[j].oid = items[i].oid
                /\ \A h \in 1..(j - 1) : items[h].oid # items[i].oid]]
\* an oid no record of the store holds, for the n-th new object of a call
NewOid(items, n) == Len(items) + n

\* the key made from the counter after its increment
ChunkKey_next(n) == <<"chunk_", n + 1>>
\* f"chunk_{n}"
ChunkKey(n) == <<"chunk_", n>>
\* a key of the caller's choosing that is no chunk_<n>
UserKey == <<"doc", 0>>

\* insert that keeps the record already stored at the key (setdefault)
insert_keep_first(items, key, vector, metadata, oid) ==
    IF key \in Keys(items) THEN items
    ELSE Append(items, [key |-> key, vector |-> vector, metadata |-> metadata, oid |-> oid])

\* VectorDatabase.insert, line 51: self.vectors[key] = VectorWithMetadata(vector, metadata)
insert(items, key, vector, metadata, oid) ==
    DictSet(items, key,
            [key |-> key, vector |-> vector, metadata |-> metadata, oid |-> oid])

\* self.vectors.get(key, None) with a lookup that adds a default record for a
\* missing key
vectors_get_default(items, key) ==
    IF key \in Keys(items) THEN items
    ELSE Append(items, [key |-> key, vector |-> <<0, 0>>, metadata |-> EmptyDict,
                        oid |-> NewOid(items, 1)])

\* retrieve_from_key, line 120: self.vectors after self.vectors.get(key, None);
\* get adds no entry to a defaultdict
vectors_get(items, key) == items

\* VectorDatabase.retrieve_from_key: <<>> is None
retrieve_from_key(items, key) ==
    IF key \in Keys(items) THEN <<items[IndexOf(items, key)].vector>> ELSE <<>>

\* ---- the embedding collaborator: one vector per text, in order
\* (a vector of two dimensions: how often each letter occurs in the text)
RECURSIVE CountOf(_, _)
CountOf(text, c) ==
    IF text = <<>> THEN 0
    ELSE (IF Head(text) = c THEN 1 ELSE 0) + CountOf(Tail(text), c)
Embed(text) == <<CountOf(text, "A"), CountOf(text, "B")>>
async_get_embeddings(list_of_text) ==
    [i \in 1..Len(list_of_text) |-> Embed(list_of_text[i])]
get_embedding(text) == Embed(text)

\* search_by_text, lines 100-104: the first text of text_to_key, in dict order,
\* whose stored key is the key; <<>> is None
RECURSIVE text_to_key_scan(_, _)
text_to_key_scan(t2k, key) ==
    IF t2k = <<>> THEN <<>>
    ELSE IF Head(t2k).value = key THEN <<Head(t2k).key>>
    ELSE text_to_key_scan(Tail(t2k), key)

\* search_by_text, lines 100-108: the text found, or the key itself
text_content(t2k, key) ==
    LET found == text_to_key_scan(t2k, key) IN
    IF found = <<>> THEN key ELSE found[1]

\* VectorDatabase.search_by_text, the query embedding in hand. Each result is
\* the tuple (text_content, score, metadata), or the bare text_content when
\* return_as_text and not include_metadata; key is the key of the search result
\* the tuple was made from, kept beside it.
search_by_text(items, t2k, query_vector, k, distance_measure, return_as_text, include_metadata, file_type_filter) ==
    LET results == search(items, query_vector, k, distance_measure, file_type_filter)
    IN [i \in 1..Len(results) |->
           IF return_as_text /\ ~include_metadata
           THEN [key |-> results[i].key,
                 text |-> text_content(t2k, results[i].key)]
           ELSE [key |-> results[i].key,
                 text |-> text_content(t2k, results[i].key),
                 score |-> results[i].score,
                 metadata |-> results[i].metadata]]

\* get_database_stats: metadata.get('file_type', 'unknown') of every record, counted
file_type_or_unknown(metadata) ==
    IF metadata.file_type = Absent THEN "unknown" ELSE metadata.file_type
get_database_stats(items) ==
    LET types == {file_type_or_unknown(items[i].metadata) : i \in 1..Len(items)} IN
    [total_vectors |-> Len(items),
     file_types |-> [t \in types |->
                        Cardinality({i \in 1..Len(items) :
                                        file_type_or_unknown(items[i].metadata) = t})],
     available_distance_metrics |-> <<"cosine", "euclidean", "manhattan">>]

\* chunk_metadata['chunk_index'] = i, seen through every reference to the dict
SetChunkIndex(items, oid, i) ==
    [j \in 1..Len(items) |->
        IF items[j].oid = oid
        THEN [items[j] EXCEPT !.metadata.chunk_index = <<i>>]
        ELSE items[j]]

\* abuild_from_list, lines 127-146: the loop from pair i (0-based) on.
\* st = [vectors, text_to_key, chunk_counter, assigned]; base is the oid before
\* the call's first new object.
RECURSIVE build_loop(_, _, _, _, _, _)
build_loop(st, list_of_text, embeddings, metadata_list, i, base) ==
    IF i >= Min(Len(list_of_text), Len(embeddings)) THEN st
    ELSE
    LET text == list_of_text[i + 1]
        chunk_key == ChunkKey(st.chunk_counter)
        has_md == /\ metadata_list.given
                  /\ Len(metadata_list.entries) > 0
                  /\ i < Len(metadata_list.entries)
        entry == metadata_list.entries[i + 1]
        \* to_dict() and {} make a new dict; a dict entry is used as it is
        oid == IF has_md /\ entry.kind = "dict"
               THEN base + entry.obj
               ELSE base + Len(list_of_text) + i + 1
        chunk_metadata ==
            IF has_md
            THEN [file_type |-> entry.file_type, chunk_index |-> <<i>>,
                  filename |-> entry.filename, content_hash |-> entry.content_hash]
            ELSE EmptyDict
        stamped == IF has_md THEN SetChunkIndex(st.vectors, oid, i) ELSE st.vectors
    IN build_loop(
        [vectors |-> insert(stamped, chunk_key, embeddings[i + 1], chunk_metadata, oid),
         text_to_key |-> DictSet(st.text_to_key, text, [key |-> text, value |-> chunk_key]),
         chunk_counter |-> st.chunk_counter + 1,
         assigned |-> Append(st.assigned, chunk_key)],
        list_of_text, embeddings, metadata_list, i + 1, base)

\* VectorDatabase.abuild_from_list, once the embeddings are back
abuild_from_list(items, t2k, counter, list_of_text, metadata_list) ==
    build_loop([vectors |-> items, text_to_key |-> t2k, chunk_counter |-> counter,
                assigned |-> <<>>],
               list_of_text, async_get_embeddings(list_of_text), metadata_list, 0,
               Len(items))

\* abuild_from_list with the embeddings fetched text by text inside the loop:
\* the store when the embedding of the last text raises
abuild_from_list_raised_in_loop(items, t2k, counter, list_of_text, metadata_list) ==
    IF list_of_text = <<>>
    THEN [vectors |-> items, text_to_key |-> t2k, chunk_counter |-> counter,
          assigned |-> <<>>]
    ELSE abuild_from_list(items, t2k, counter,
                          SubSeq(list_of_text, 1, Len(list_of_text) - 1), metadata_list)
\* VectorDatabase.abuild_from_list when the await of line 125 raises: the store
\* as the exception leaves it. No statement of the call precedes line 125 and
\* no try encloses it, so the loop of lines 127-146 is not reached.
abuild_from_list_raised(items, t2k, counter, list_of_text, metadata_list) ==
    [vectors |-> items, text_to_key |-> t2k, chunk_counter |-> counter,
     assigned |-> <<>>]

\* ================================================================ enhanced_rag_pipeline
\* self is the pipeline with its store: [vectors, text_to_key, chunk_counter,
\* stats, text_splitter, distance_metric]. An ingest call returns the pipeline
\* after it, the result dict, and the keys and texts the store call assigned.
\* fail names the step of the try block that raises: "loader", "splitter",
\* "embedding", or "none".

\* add_documents_from_file, lines 56-62: chunks and chunk_metadata_list
RECURSIVE chunk_lists(_, _, _)
chunk_lists(text_splitter, documents, metadata_list) ==
    IF documents = <<>> \/ metadata_list = <<>>
    THEN [chunks |-> <<>>, chunk_metadata_list |-> <<>>]
    ELSE LET split_chunks == split_texts(text_splitter, <<Head(documents)>>)
             rest == chunk_lists(text_splitter, Tail(documents), Tail(metadata_list))
         IN [chunks |-> split_chunks \o rest.chunks,
             chunk_metadata_list |->
                 [i \in 1..Len(split_chunks) |-> Head(metadata_list)]
                 \o rest.chunk_metadata_list]

\* except Exception as e: return {'success': False, 'error': str(e)}
ingest_failed(self, error) ==
    [self |-> self, assigned |-> <<>>, chunks |-> <<>>,
     result |-> [success |-> FALSE, error |-> error]]

\* lines 64-67 and 122-125: the store call, then the two counters
ingest_chunks(self, documents, lists) ==
    LET built == abuild_from_list(self.vectors, self.text_to_key, self.chunk_counter,
                                  lists.chunks,
                                  [given |-> TRUE, entries |-> lists.chunk_metadata_list])
    IN [self |-> [self EXCEPT
                     !.vectors = built.vectors,
                     !.text_to_key = built.text_to_key,
                     !.chunk_counter = built.chunk_counter,
                     !.stats.documents_processed = @ + Len(documents),
                     !.stats.chunks_created = @ + Len(lists.chunks)],
        assigned |-> built.assigned, chunks |-> lists.chunks]

\* add_documents_from_file with the counters moved before the store call
add_documents_from_file_counting_first(self, file_path, fail) ==
    LET loaded == load_documents(file_path)
        lists == chunk_lists(self.text_splitter, loaded.documents, loaded.metadata)
        counted == [self EXCEPT
                       !.stats.documents_processed = @ + Len(loaded.documents),
                       !.stats.chunks_created = @ + Len(lists.chunks)]
    IN IF loaded.raised \/ fail = "loader" THEN ingest_failed(self, "loader")
       ELSE IF fail = "splitter" THEN ingest_failed(self, "splitter")
       ELSE IF fail = "embedding" THEN ingest_failed(counted, "embedding")
       ELSE LET done == ingest_chunks(self, loaded.documents, lists) IN
            [self |-> done.self, assigned |-> done.assigned, chunks |-> done.chunks,
             result |-> [success |-> TRUE, documents_loaded |-> Len(loaded.documents),
                         chunks_created |-> Len(lists.chunks),
                         metadata_available |-> Len(loaded.metadata) > 0]]

\* EnhancedRAGPipeline.add_documents_from_file
add_documents_from_file(self, file_path, fail) ==
    LET loaded == load_documents(file_path)
        lists == chunk_lists(self.text_splitter, loaded.documents, loaded.metadata)
    IN IF loaded.raised \/ fail = "loader" THEN ingest_failed(self, "loader")
       ELSE IF fail = "splitter" THEN ingest_failed(self, "splitter")
       ELSE IF fail = "embedding" THEN ingest_failed(self, "embedding")
       ELSE LET done == ingest_chunks(self, loaded.documents, lists)
                typed == IF file_path.suffix = ".txt"
                         THEN [done.self EXCEPT !.stats.txt_files_processed = @ + 1]
                         ELSE IF file_path.suffix = ".pdf"
                         THEN [done.self EXCEPT !.stats.pdf_files_processed = @ + 1]
                         ELSE done.self
            IN [self |-> typed, assigned |-> done.assigned, chunks |-> done.chunks,
                result |-> [success |-> TRUE, documents_loaded |-> Len(loaded.documents),
                            chunks_created |-> Len(lists.chunks),
                            metadata_available |-> Len(loaded.metadata) > 0]]

\* YouTubeTranscriber.transcribe_video returns one fixed text for every URL
\* a video id can be read from, and raises ValueError for any other
YouTubeTranscript == <<"A", "B">>
\* lines 93-111: the transcriptions and their metadata
youtube_documents(urls) ==
    [raised |-> \E i \in 1..Len(urls) : ~urls[i].valid,
     documents |-> [i \in 1..Len(urls) |-> YouTubeTranscript],
     metadata |-> [i \in 1..Len(urls) |->
                      DocumentMetadata([filename |-> urls[i].id, file_type |-> "youtube",
                                        content |-> YouTubeTranscript])]]

\* EnhancedRAGPipeline.add_documents_from_youtube
add_documents_from_youtube(self, urls, fail) ==
    LET loaded == youtube_documents(urls)
        lists == chunk_lists(self.text_splitter, loaded.documents, loaded.metadata)
    IN IF loaded.raised \/ fail = "loader" THEN ingest_failed(self, "loader")
       ELSE IF fail = "splitter" THEN ingest_failed(self, "splitter")
       ELSE IF fail = "embedding" THEN ingest_failed(self, "embedding")
       ELSE LET done == ingest_chunks(self, loaded.documents, lists) IN
            [self |-> [done.self EXCEPT
                          !.stats.youtube_videos_processed = @ + Len(urls)],
             assigned |-> done.assigned, chunks |-> done.chunks,
             result |-> [success |-> TRUE, videos_processed |-> Len(urls),
                         documents_loaded |-> Len(loaded.documents),
                         chunks_created |-> Len(lists.chunks)]]

\* f"{score:.3f}": the score rounded to thousandths, as sign and digits; "nan"
\* for nan. RoundSqrt is the m in lo..hi nearest to 1000 * sqrt(num / den).
RECURSIVE RoundSqrt(_, _, _, _)
RoundSqrt(lo, hi, num, den) ==
    IF lo >= hi THEN lo
    ELSE LET m == lo + ((hi - lo + 1) \div 2) IN
         IF (2 * m - 1) * (2 * m - 1) <= (4000000 * num) \div den
         THEN RoundSqrt(m, hi, num, den)
         ELSE RoundSqrt(lo, m - 1, num, den)
format_3f(score) ==
    IF score.nan THEN [nan |-> TRUE, negative |-> FALSE, thousandths |-> 0]
    ELSE [nan |-> FALSE, negative |-> score.num < 0,
          thousandths |-> RoundSqrt(0, 1000 * ((Abs(score.num) \div score.den) + 1),
                                    Abs(score.num), score.den)]

\* query, lines 166-169: the source label of one result
source_label(metadata_dict) ==
    IF metadata_dict = EmptyDict THEN [unknown |-> TRUE]
    ELSE [unknown |-> FALSE,
          filename |-> IF metadata_dict.filename = Absent THEN "Unknown"
                       ELSE metadata_dict.filename,
          chunk_index |-> metadata_dict.chunk_index,
          file_type |-> IF metadata_dict.file_type = Absent THEN "N/A"
                        ELSE metadata_dict.file_type]

\* the generation collaborator: chat_model.run(messages, temperature=0)
run(context_list, user_query) == [answer_to |-> user_query, given |-> context_list]

\* query with the source label left out for a result (sources shorter)
query_lists_short(relevant_results) ==
    [context_list |-> [i \in 1..Len(relevant_results) |-> relevant_results[i].text],
     relevance_scores |->
         [i \in 1..Len(relevant_results) |-> format_3f(relevant_results[i].score)],
     sources |-> [i \in 1..(Len(relevant_results) - 1) |->
                     source_label(relevant_results[i].metadata)]]

\* query, lines 159-169: the three lists, one entry per result in ranked order
query_lists(relevant_results) ==
    [context_list |-> [i \in 1..Len(relevant_results) |-> relevant_results[i].text],
     relevance_scores |->
         [i \in 1..Len(relevant_results) |-> format_3f(relevant_results[i].score)],
     sources |-> [i \in 1..Len(relevant_results) |->
                     source_label(relevant_results[i].metadata)]]

\* query with the counter incremented only once the answer is there
query_counting_success(self, user_query, k, distance_metric, include_metadata, file_type_filter, fail) ==
    LET actual_distance_metric ==
            IF Truthy(distance_metric) THEN distance_metric
            ELSE PyStr(self.distance_metric)
        relevant_results ==
            search_by_text(self.vectors, self.text_to_key, get_embedding(user_query),
                           k, actual_distance_metric, FALSE, TRUE, file_type_filter)
        lists == query_lists(relevant_results)
    IN IF fail = "embedding"
       THEN [self |-> self, generated |-> 0,
             result |-> [success |-> FALSE, error |-> "embedding"]]
       ELSE IF fail = "generation"
       THEN [self |-> self, generated |-> 1,
             result |-> [success |-> FALSE, error |-> "generation"]]
       ELSE [self |-> [self EXCEPT !.stats.queries_processed = @ + 1], generated |-> 1,
             result |-> [success |-> TRUE, response |-> run(lists.context_list, user_query),
                         context |-> lists.context_list,
                         relevance_scores |-> lists.relevance_scores,
                         sources |-> lists.sources,
                         full_results |-> IF include_metadata THEN <<relevant_results>>
                                          ELSE <<>>]]

\* EnhancedRAGPipeline.query. fail names the collaborator that raises:
\* "embedding" (in search_by_text), "generation" (chat_model.run), or "none";
\* generated counts the calls made of chat_model.run. full_results is <<>>
\* when the result has no such key.
query(self, user_query, k, distance_metric, include_metadata, file_type_filter, fail) ==
    LET counted == [self EXCEPT !.stats.queries_processed = @ + 1]
        actual_distance_metric ==
            IF Truthy(distance_metric) THEN distance_metric
            ELSE PyStr(self.distance_metric)
        relevant_results ==
            search_by_text(self.vectors, self.text_to_key, get_embedding(user_query),
                           k, actual_distance_metric, FALSE, TRUE, file_type_filter)
        lists == query_lists(relevant_results)
    IN IF fail = "embedding"
       THEN [self |-> counted, generated |-> 0,
             result |-> [success |-> FALSE, error |-> "embedding"]]
       ELSE IF fail = "generation"
       THEN [self |-> counted, generated |-> 1,
             result |-> [success |-> FALSE, error |-> "generation"]]
       ELSE [self |-> counted, generated |-> 1,
             result |-> [success |-> TRUE, response |-> run(lists.context_list, user_query),
                         context |-> lists.context_list,
                         relevance_scores |-> lists.relevance_scores,
                         sources |-> lists.sources,
                         full_results |-> IF include_metadata THEN <<relevant_results>>
                                          ELSE <<>>]]

\* self.vector_db.distance_functions.keys()
MetricNames == <<"cosine", "euclidean", "manhattan">>
\* EnhancedRAGPipeline.compare_distance_metrics; failing holds the metrics whose
\* search_by_text call raises (the query embedding is fetched once per metric)
compare_distance_metrics(self, user_query, k, failing) ==
    [self |-> self,
     result |->
        [n \in 1..Len(MetricNames) |->
            IF MetricNames[n] \in failing
            THEN [metric |-> MetricNames[n], error |-> <<"embedding">>,
                  top_results |-> <<>>, scores |-> <<>>]
            ELSE LET search_results ==
                         search_by_text(self.vectors, self.text_to_key,
                                        get_embedding(user_query), k,
                                        PyStr(MetricNames[n]), FALSE, FALSE, PyNone)
                 IN [metric |-> MetricNames[n], error |-> <<>>,
                     top_results |-> [i \in 1..Len(search_results) |->
                                         search_results[i].text],
                     scores |-> [i \in 1..Len(search_results) |->
                                    search_results[i].score]]]]

\* EnhancedRAGPipeline.get_database_stats
pipeline_get_database_stats(self) ==
    LET db_stats == get_database_stats(self.vectors) IN
    [pipeline_stats |-> self.stats, database_stats |-> db_stats,
     current_distance_metric |-> self.distance_metric,
     available_distance_metrics |-> db_stats.available_distance_metrics]

\* ---------------------------------------------------------------- inputs
Vecs == {<<0, 0>>, <<1, 0>>, <<1, 2>>}
Queries == {<<1, 0>>, <<0, 0>>}
\* the metadata argument of insert: <<>> is None, else a dict of the caller's
MetadataArgs == {<<>>, <<[EmptyDict EXCEPT !.file_type = "txt"]>>}
Measures == {PyNone, PyStr("cosine"), PyStr("euclidean"), PyStr("manhattan"),
             PyStr("dot"), PyCallable("dot_product_score"),
             PyCallable("manhattan_distance")}
Filters == {PyNone, PyStr(""), PyStr("txt"), PyStr("pdf")}
BuildTexts == {<<"A">>, <<"B">>}
TextLists == UNION {[1..n -> BuildTexts] : n \in 0..MaxTexts}
\* an entry of metadata_list: a DocumentMetadata object, or one of two dicts of
\* the caller's; entries with the same obj are the same object
MetadataEntries ==
    {[kind |-> "DocumentMetadata", obj |-> 0, file_type |-> "txt",
      filename |-> "a.txt", content_hash |-> <<>>]}
    \cup {[kind |-> "dict", obj |-> j, file_type |-> "txt", filename |-> Absent,
           content_hash |-> <<>>] : j \in 1..2}
MetadataLists(n) ==
    {[given |-> FALSE, entries |-> <<>>]}
    \cup {[given |-> TRUE, entries |-> e] : e \in [1..n -> MetadataEntries]}

\* ---------------------------------------------------------------- actions
\* the history of ingested texts after the keys assigned were given the texts
Ingest(history, assigned, list_of_text) ==
    history \o [i \in 1..Len(assigned) |-> [key |-> assigned[i], text |-> list_of_text[i]]]

Construct(cs, co) ==
    LET r == CharacterTextSplitter_init(cs, co) IN
    /\ splitter' = IF r.raised = "" THEN r.obj[1] ELSE splitter
    /\ op' = [name |-> "construct", chunk_size |-> cs, chunk_overlap |-> co,
              raised |-> r.raised, obj |-> r.obj]
    /\ UNCHANGED <<vectors, text_to_key, chunk_counter, inserted, ingested, stats,
                   calls, tasks>>

Split(text) ==
    /\ splitter.constructed
    /\ op' = [name |-> "split", self |-> splitter, text |-> text,
              chunks |-> split(splitter, text)]
    /\ UNCHANGED <<splitter, vectors, text_to_key, chunk_counter, inserted, ingested,
                   stats, calls, tasks>>

Insert(key, vector, metadata) ==
    /\ key \in Keys(vectors) \/ Len(vectors) < MaxRecords
    /\ vectors' = Canonical(insert(vectors, key, vector,
                                   IF metadata = <<>> THEN EmptyDict ELSE metadata[1],
                                   NewOid(vectors, 1)))
    /\ inserted' = {p \in inserted : p.key # key} \cup {[key |-> key, vector |-> vector]}
    /\ op' = [name |-> "insert", key |-> key, vector |-> vector,
              previous |-> retrieve_from_key(vectors, key)]
    /\ calls' = [calls EXCEPT !.stats_seen = <<>>]
    /\ UNCHANGED <<splitter, text_to_key, chunk_counter, ingested, stats, tasks>>

Retrieve(key) ==
    /\ op' = [name |-> "retrieve", key |-> key, result |-> retrieve_from_key(vectors, key)]
    /\ vectors' = vectors_get(vectors, key)
    /\ UNCHANGED <<splitter, text_to_key, chunk_counter, inserted, ingested, stats,
                   calls, tasks>>

Search(query_vector, k, distance_measure, file_type_filter) ==
    /\ op' = [name |-> "search", query_vector |-> query_vector, k |-> k,
              distance_measure |-> distance_measure,
              file_type_filter |-> file_type_filter,
              result |-> search(vectors, query_vector, k, distance_measure,
                                file_type_filter)]
    /\ UNCHANGED <<splitter, vectors, text_to_key, chunk_counter, inserted, ingested,
                   stats, calls, tasks>>

\* build_from_texts: the embedding call either fails, and the exception leaves
\* the store as it was, or returns and the loop runs
Build(list_of_text, metadata_list, embed_ok) ==
    /\ chunk_counter + Len(list_of_text) <= MaxRecords
    /\ \E r \in {abuild_from_list(vectors, text_to_key, chunk_counter, list_of_text,
                                  metadata_list)} :
          /\ Len(r.vectors) <= MaxRecords
          /\ IF embed_ok
             THEN /\ vectors' = Canonical(r.vectors)
                  /\ text_to_key' = r.text_to_key
                  /\ chunk_counter' = r.chunk_counter
                  /\ inserted' =
                        {p \in inserted :
                            p.key \notin {r.assigned[i] : i \in 1..Len(r.assigned)}}
                        \cup {[key |-> r.assigned[i], vector |-> Embed(list_of_text[i])] :
                                  i \in 1..Len(r.assigned)}
                  /\ ingested' = Ingest(ingested, r.assigned, list_of_text)
                  /\ calls' = [calls EXCEPT !.stats_seen = <<>>]
                  /\ op' = [name |-> "build", ok |-> TRUE, n_texts |-> Len(list_of_text),
                            metadata_given |-> metadata_list.given,
                            n_metadata |-> Len(metadata_list.entries),
                            assigned |-> r.assigned, keys_before |-> Keys(vectors)]
             ELSE /\ op' = [name |-> "build", ok |-> FALSE, n_texts |-> Len(list_of_text),
                            metadata_given |-> metadata_list.given,
                            n_metadata |-> Len(metadata_list.entries),
                            assigned |-> <<>>, keys_before |-> Keys(vectors)]
                  /\ UNCHANGED <<vectors, text_to_key, chunk_counter, inserted, ingested,
                                 calls>>
    /\ UNCHANGED <<splitter, stats, tasks>>

\* EnhancedRAGPipeline.__init__, lines 38-45
NewStats ==
    [documents_processed |-> 0, chunks_created |-> 0, queries_processed |-> 0,
     txt_files_processed |-> 0, pdf_files_processed |-> 0,
     youtube_videos_processed |-> 0]

\* search_by_text on the store: get_embedding raises, or the search runs
SearchByText(query_text, k, distance_measure, return_as_text, file_type_filter, embed_ok) ==
    /\ op' = IF embed_ok
             THEN [name |-> "search_by_text", raised |-> FALSE, k |-> k,
                   query_text |-> query_text,
                   distance_measure |-> distance_measure,
                   file_type_filter |-> file_type_filter,
                   result |-> search_by_text(vectors, text_to_key,
                                             get_embedding(query_text), k,
                                             distance_measure, return_as_text, FALSE,
                                             file_type_filter)]
             ELSE [name |-> "search_by_text", raised |-> TRUE, k |-> k,
                   query_text |-> query_text,
                   distance_measure |-> distance_measure,
                   file_type_filter |-> file_type_filter, result |-> <<>>]
    /\ UNCHANGED <<splitter, vectors, text_to_key, chunk_counter, inserted, ingested,
                   stats, calls, tasks>>

\* VectorDatabase.get_database_stats
Stats ==
    /\ op' = [name |-> "stats", result |-> get_database_stats(vectors),
              previous |-> calls.stats_seen]
    /\ calls' = [calls EXCEPT !.stats_seen = <<get_database_stats(vectors)>>]
    /\ UNCHANGED <<splitter, vectors, text_to_key, chunk_counter, inserted, ingested,
                   stats, tasks>>

InitStore ==
    /\ vectors = <<>>
    /\ text_to_key = <<>>
    /\ chunk_counter = 0
    /\ inserted = {}
    /\ ingested = <<>>
    /\ stats = NewStats
    /\ calls = [query |-> 0, generate |-> 0, ingest |-> 0, stats_seen |-> <<>>]
    /\ tasks = <<>>
    /\ op = [name |-> "init"]

Init == splitter = NoSplitter /\ InitStore

\* ---- the pipeline: EnhancedRAGPipeline(chunk_size, chunk_overlap) holds the
\* store, the splitter it constructed, the default metric 'cosine' and stats
Self ==
    [vectors |-> vectors, text_to_key |-> text_to_key, chunk_counter |-> chunk_counter,
     stats |-> stats, text_splitter |-> splitter, distance_metric |-> "cosine"]

\* the store and the histories after an ingest call returned r
Ingested(r) ==
    /\ vectors' = Canonical(r.self.vectors)
    /\ text_to_key' = r.self.text_to_key
    /\ chunk_counter' = r.self.chunk_counter
    /\ stats' = r.self.stats
    /\ inserted' = {p \in inserted :
                       p.key \notin {r.assigned[i] : i \in 1..Len(r.assigned)}}
                   \cup {[key |-> r.assigned[i], vector |-> Embed(r.chunks[i])] :
                             i \in 1..Len(r.assigned)}
    /\ ingested' = Ingest(ingested, r.assigned, r.chunks)
    /\ calls' = IF r.result.success
                THEN [calls EXCEPT !.stats_seen = <<>>, !.ingest = @ + 1]
                ELSE calls
    /\ UNCHANGED <<splitter, tasks>>

IngestFile(file_path, fail) ==
    /\ calls.ingest < MaxIngests
    /\ \E r \in {add_documents_from_file(Self, file_path, fail)} :
          /\ Len(r.self.vectors) <= MaxRecords
          /\ r.self.chunk_counter <= MaxRecords
          /\ Ingested(r)
          /\ op' = [name |-> "ingest", from |-> "file", fail |-> fail,
                    loadable |-> file_path.kind # "invalid",
                    contents |-> IF file_path.kind = "invalid" THEN <<>>
                                 ELSE [i \in 1..Len(file_path.docs) |->
                                          file_path.docs[i].content],
                    stats_before |-> stats, assigned |-> r.assigned,
                    result |-> r.result]

IngestYoutube(urls, fail) ==
    /\ calls.ingest < MaxIngests
    /\ \E r \in {add_documents_from_youtube(Self, urls, fail)} :
          /\ Len(r.self.vectors) <= MaxRecords
          /\ r.self.chunk_counter <= MaxRecords
          /\ Ingested(r)
          /\ op' = [name |-> "ingest", from |-> "youtube", fail |-> fail,
                    loadable |-> \A i \in 1..Len(urls) : urls[i].valid,
                    contents |-> [i \in 1..Len(urls) |-> YouTubeTranscript],
                    stats_before |-> stats, assigned |-> r.assigned,
                    result |-> r.result]

Query(user_query, k, distance_metric, include_metadata, file_type_filter, fail) ==
    /\ calls.query < MaxQueries
    /\ \E r \in {query(Self, user_query, k, distance_metric, include_metadata,
                        file_type_filter, fail)} :
          /\ vectors' = r.self.vectors
          /\ text_to_key' = r.self.text_to_key
          /\ chunk_counter' = r.self.chunk_counter
          /\ stats' = r.self.stats
          /\ calls' = [calls EXCEPT !.query = @ + 1, !.generate = @ + r.generated]
          /\ op' = [name |-> "query", user_query |-> user_query, k |-> k,
                    distance_metric |-> distance_metric,
                    file_type_filter |-> file_type_filter, fail |-> fail,
                    generated |-> r.generated, result |-> r.result]
    /\ UNCHANGED <<splitter, inserted, ingested, tasks>>

Compare(user_query, k, failing) ==
    /\ \E r \in {compare_distance_metrics(Self, user_query, k, failing)} :
          /\ vectors' = r.self.vectors
          /\ text_to_key' = r.self.text_to_key
          /\ chunk_counter' = r.self.chunk_counter
          /\ stats' = r.self.stats
          /\ op' = [name |-> "compare", user_query |-> user_query, k |-> k,
                    result |-> r.result]
    /\ UNCHANGED <<splitter, inserted, ingested, calls, tasks>>

PipelineStats ==
    /\ op' = [name |-> "pipeline_stats", result |-> pipeline_get_database_stats(Self)]
    /\ UNCHANGED <<splitter, vectors, text_to_key, chunk_counter, inserted, ingested,
                   stats, calls, tasks>>

\* the pipeline constructed: EnhancedRAGPipeline(chunk_size=2, chunk_overlap=1)
PipelineSizes == {<<2, 1>>}
InitPipeline ==
    /\ splitter \in {CharacterTextSplitter_init(p[1], p[2]).obj[1] : p \in PipelineSizes}
    /\ InitStore

\* the documents a path holds: a text file of no, one or MaxRecords characters
\* and a PDF file of one character; a directory holds each file name once and is walked
\* in the order of the names
DocText(n) == [i \in 1..n |-> IF i % 2 = 1 THEN "A" ELSE "B"]
DocLengths == {0, 1, MaxRecords}
Docs ==
    {[filename |-> "a.txt", file_type |-> "txt", content |-> DocText(n)] :
        n \in DocLengths}
    \cup {[filename |-> "b.pdf", file_type |-> "pdf", content |-> DocText(1)]}
Paths ==
    {[kind |-> "invalid", suffix |-> "", docs |-> <<>>]}
    \cup {[kind |-> "file", suffix |-> ".txt", docs |-> <<d>>] :
              d \in {e \in Docs : e.file_type = "txt"}}
    \cup {[kind |-> "file", suffix |-> ".pdf", docs |-> <<d>>] :
              d \in {e \in Docs : e.file_type = "pdf"}}
    \cup {[kind |-> "dir", suffix |-> "", docs |-> ds] :
              ds \in {l \in UNION {[1..n -> Docs] : n \in 0..MaxDocs} :
                         /\ \A i, j \in 1..Len(l) :
                               l[i].filename = l[j].filename => i = j
                         /\ \A i \in 1..(Len(l) - 1) : l[i].file_type = "txt"
                         /\ SumTo([i \in 1..Len(l) |-> Len(l[i].content)], Len(l))
                               <= MaxRecords}}
\* every path ingested with no step failing, and one file with each step failing
IngestFileCalls ==
    {[file_path |-> file_path, fail |-> "none"] : file_path \in Paths}
    \cup {[file_path |-> [kind |-> "file", suffix |-> ".txt",
                          docs |-> <<[filename |-> "a.txt", file_type |-> "txt",
                                      content |-> DocText(1)]>>],
           fail |-> fail] : fail \in {"loader", "splitter", "embedding"}}
Urls == {[id |-> "YouTube_Video_1", valid |-> TRUE],
         [id |-> "YouTube_Video_2", valid |-> TRUE],
         [id |-> "", valid |-> FALSE]}
\* the URL lists ingested: up to MaxDocs videos, the last URL of a list valid
\* or not
UrlLists ==
    {l \in UNION {[1..n -> Urls] : n \in 0..MaxDocs} :
        \A i \in 1..(Len(l) - 1) :
            l[i] = [id |-> IF i % 2 = 1 THEN "YouTube_Video_1" ELSE "YouTube_Video_2",
                    valid |-> TRUE]}
IngestYoutubeCalls ==
    {[urls |-> urls, fail |-> "none"] : urls \in UrlLists}
    \cup {[urls |-> <<[id |-> "YouTube_Video_1", valid |-> TRUE]>>, fail |-> fail] :
              fail \in {"splitter", "embedding"}}
\* the query calls made: the defaults for three values of k, a filtered euclidean query
\* for the smallest and the largest k, and a call for each collaborator that fails
QueryCalls ==
    {[k |-> k, distance_metric |-> PyNone, include_metadata |-> FALSE,
      file_type_filter |-> PyNone, fail |-> "none"] : k \in {0, MaxK - 1, MaxK}}
    \cup {[k |-> k, distance_metric |-> PyStr("euclidean"), include_metadata |-> TRUE,
           file_type_filter |-> PyStr("pdf"), fail |-> "none"] : k \in {1, MaxK}}
    \cup {[k |-> MaxK, distance_metric |-> PyNone, include_metadata |-> FALSE,
           file_type_filter |-> PyNone, fail |-> fail] :
              fail \in {"embedding", "generation"}}
CompareFails == {{}, {"euclidean"}}

NextPipeline ==
    \/ \E c \in IngestFileCalls : IngestFile(c.file_path, c.fail)
    \/ \E c \in IngestYoutubeCalls : IngestYoutube(c.urls, c.fail)
    \/ \E c \in QueryCalls :
            Query(<<"A">>, c.k, c.distance_metric, c.include_metadata,
                  c.file_type_filter, c.fail)
    \/ \E failing \in CompareFails : Compare(<<"A">>, MaxK - 1, failing)
    \/ PipelineStats

SpecPipeline == InitPipeline /\ [][NextPipeline]_vars

NextSplit ==
    \/ \E cs \in SizeRange, co \in SizeRange : Construct(cs, co)
    \/ \E text \in Texts : Split(text)

SpecSplit == Init /\ [][NextSplit]_vars

\* The store filled by insert alone, and searched. Every record is inserted
\* under the next unused key chunk_<n>: which key a record has is nothing search
\* looks at, and an overwrite leaves a store that inserts of new keys reach too.
\* search only reads the store, so the calls that follow a search reach no store
\* and no result that the calls before it do not: each search is issued from a
\* state an insert left, and the run is not followed past it.
NextSearch ==
    /\ op.name # "search"
    /\ \/ \E vector \in Vecs, metadata \in MetadataArgs :
               Insert(ChunkKey(Len(vectors)), vector, metadata)
       \/ \E q \in Queries, k \in 0..MaxK, dm \in Measures, f \in Filters :
               Search(q, k, dm, f)

SpecSearch == Init /\ [][NextSearch]_vars

\* The store filled by build_from_texts alone (texts may repeat within a call
\* and across calls) and read through search_by_text.
\* no metadata_list, or a DocumentMetadata of a text file for every text
TextMetadataLists(n) ==
    {[given |-> FALSE, entries |-> <<>>],
     [given |-> TRUE,
      entries |-> [i \in 1..n |-> [kind |-> "DocumentMetadata", obj |-> 0,
                                   file_type |-> "txt", filename |-> "a.txt",
                                   content_hash |-> <<>>]]]}
TextMeasures == {PyNone, PyStr("euclidean")}
TextFilters == {PyNone, PyStr("txt")}
\* search_by_text only reads the store: each is issued from a state a build
\* left, and the run is not followed past it.
NextText ==
    /\ op.name # "search_by_text"
    /\ \/ \E t \in TextLists : \E m \in TextMetadataLists(Len(t)), ok \in BOOLEAN :
               Build(t, m, ok)
       \/ \E q \in BuildTexts, k \in 0..MaxK, dm \in TextMeasures, rt \in BOOLEAN,
             f \in TextFilters, ok \in BOOLEAN :
               SearchByText(q, k, dm, rt, f, ok)

SpecText == Init /\ [][NextText]_vars

\* the store under insert, build_from_texts and retrieve
InsertKeys == {ChunkKey(0), UserKey}
InsertVecs == {<<0, 0>>, <<1, 0>>}
Next ==
    \/ \E key \in InsertKeys, vector \in InsertVecs : Insert(key, vector, <<>>)
    \/ \E t \in TextLists : \E m \in MetadataLists(Len(t)), ok \in BOOLEAN :
            Build(t, m, ok)
    \/ \E key \in InsertKeys \cup {ChunkKey(MaxRecords)} : Retrieve(key)

Spec == Init /\ [][Next]_vars

\* The store under its writers and every read operation of the store and of the
\* pipeline: search, search_by_text, retrieve_from_key, get_database_stats,
\* query and compare_distance_metrics, with calls that fail and keys that are
\* not there.
ReadFails == {"none", "embedding", "generation"}
\* the texts of a build_from_texts call: none or one
ReadLists == {t \in TextLists : Len(t) <= 1}
NextReads ==
    \/ Insert(UserKey, <<1, 0>>, <<>>)
    \/ \E t \in ReadLists : \E m \in TextMetadataLists(Len(t)) : Build(t, m, TRUE)
    \/ \E key \in {UserKey, ChunkKey(MaxRecords)} : Retrieve(key)
    \/ Search(<<1, 0>>, MaxK - 1, PyStr("euclidean"), PyStr("txt"))
    \/ \E ok \in BOOLEAN : SearchByText(<<"A">>, MaxK - 1, PyNone, TRUE, PyNone, ok)
    \/ Stats
    \/ \E fail \in ReadFails : Query(<<"A">>, MaxK - 1, PyNone, FALSE, PyNone, fail)
    \/ Compare(<<"A">>, MaxK - 1, {"euclidean"})

SpecReads == Init /\ [][NextReads]_vars

\* ---- abuild_from_list run by several callers at once, none holding a lock:
\* a step of a call is one statement of the loop of lines 127-146
\* a call whose embeddings are back (line 125), before pair i of its loop;
\* line is the statement it runs next (148: the loop is over), chunk_key its
\* local variable, <<>> before the first assignment
BuildTask(list_of_text) ==
    [list_of_text |-> list_of_text, embeddings |-> async_get_embeddings(list_of_text),
     i |-> 0, line |-> IF list_of_text = <<>> THEN 148 ELSE 129, chunk_key |-> <<>>]
TaskTexts == SumTo([n \in 1..Len(tasks) |-> Len(tasks[n].list_of_text)], Len(tasks))

StartBuild(list_of_text) ==
    /\ Len(tasks) < MaxCalls
    /\ TaskTexts + Len(list_of_text) <= MaxRecords
    /\ tasks' = Append(tasks, BuildTask(list_of_text))
    /\ op' = [name |-> "start", task |-> Len(tasks) + 1]
    /\ UNCHANGED <<splitter, vectors, text_to_key, chunk_counter, inserted, ingested,
                   stats, calls>>

\* line 129: chunk_key = f"chunk_{self.chunk_counter}"
ReadCounter(n) ==
    /\ tasks[n].line = 129
    /\ tasks' = [tasks EXCEPT ![n].chunk_key = <<ChunkKey(chunk_counter)>>,
                              ![n].line = 130]
    /\ op' = [name |-> "step", task |-> n, line |-> 129]
    /\ UNCHANGED <<splitter, vectors, text_to_key, chunk_counter, inserted, ingested,
                   stats, calls>>

\* line 130: self.chunk_counter += 1
Increment(n) ==
    /\ tasks[n].line = 130
    /\ chunk_counter' = chunk_counter + 1
    /\ tasks' = [tasks EXCEPT ![n].line = 143]
    /\ op' = [name |-> "step", task |-> n, line |-> 130]
    /\ UNCHANGED <<splitter, vectors, text_to_key, inserted, ingested, stats, calls>>

\* line 143: self.text_to_key[text] = chunk_key (no metadata_list was given:
\* lines 133-140 leave chunk_metadata = {})
WriteMapping(n) ==
    /\ tasks[n].line = 143
    /\ text_to_key' = DictSet(text_to_key, tasks[n].list_of_text[tasks[n].i + 1],
                              [key |-> tasks[n].list_of_text[tasks[n].i + 1],
                               value |-> tasks[n].chunk_key[1]])
    /\ tasks' = [tasks EXCEPT ![n].line = 146]
    /\ op' = [name |-> "step", task |-> n, line |-> 143]
    /\ UNCHANGED <<splitter, vectors, chunk_counter, inserted, ingested, stats, calls>>

\* line 146: self.insert(chunk_key, np.array(embedding), chunk_metadata), and
\* line 127: the next pair, or the end of the loop
InsertRecord(n) ==
    /\ tasks[n].line = 146
    /\ vectors' = Canonical(insert(vectors, tasks[n].chunk_key[1],
                                   tasks[n].embeddings[tasks[n].i + 1], EmptyDict,
                                   NewOid(vectors, 1)))
    /\ inserted' = {p \in inserted : p.key # tasks[n].chunk_key[1]}
                   \cup {[key |-> tasks[n].chunk_key[1],
                          vector |-> tasks[n].embeddings[tasks[n].i + 1]]}
    /\ ingested' = Ingest(ingested, <<tasks[n].chunk_key[1]>>,
                          <<tasks[n].list_of_text[tasks[n].i + 1]>>)
    /\ calls' = [calls EXCEPT !.stats_seen = <<>>]
    /\ tasks' = [tasks EXCEPT ![n].i = @ + 1,
                              ![n].line = IF tasks[n].i + 1 < Len(tasks[n].list_of_text)
                                          THEN 129 ELSE 148]
    /\ op' = [name |-> "step", task |-> n, line |-> 146]
    /\ UNCHANGED <<splitter, text_to_key, chunk_counter, stats>>

RaceLists == {t \in TextLists : t # <<>>}
NextRace ==
    \/ \E t \in RaceLists : StartBuild(t)
    \/ \E n \in 1..Len(tasks) : ReadCounter(n)
    \/ \E n \in 1..Len(tasks) : Increment(n)
    \/ \E n \in 1..Len(tasks) : WriteMapping(n)
    \/ \E n \in 1..Len(tasks) : InsertRecord(n)

SpecRace == Init /\ [][NextRace]_vars

\* ---- abuild_from_list as a coroutine: a call is suspended at its one await,
\* of the embeddings (line 125), and runs its loop (lines 127-146) to the end
\* once resumed; the calls awaiting are resumed in any order
AwaitingTask(list_of_text, metadata_list) ==
    [list_of_text |-> list_of_text, metadata_list |-> metadata_list, line |-> 125,
     raised |-> FALSE, assigned |-> <<>>]

\* abuild_from_list is called and reaches line 125
CallBuild(list_of_text, metadata_list) ==
    /\ Len(tasks) < MaxCalls
    /\ TaskTexts + Len(list_of_text) <= MaxRecords
    /\ tasks' = Append(tasks, AwaitingTask(list_of_text, metadata_list))
    /\ op' = [name |-> "call", task |-> Len(tasks) + 1]
    /\ UNCHANGED <<splitter, vectors, text_to_key, chunk_counter, inserted, ingested,
                   stats, calls>>

\* the await of call n ends: the embeddings are there and the loop runs, or the
\* embedding call raised and the exception ends the call
EmbeddingsReturn(n, embed_ok) ==
    /\ tasks[n].line = 125
    /\ ~tasks[n].raised
    /\ \E r \in {abuild_from_list(vectors, text_to_key, chunk_counter,
                                  tasks[n].list_of_text, tasks[n].metadata_list)} :
          IF embed_ok
          THEN /\ vectors' = Canonical(r.vectors)
               /\ text_to_key' = r.text_to_key
               /\ chunk_counter' = r.chunk_counter
               /\ inserted' =
                     {p \in inserted :
                         p.key \notin {r.assigned[i] : i \in 1..Len(r.assigned)}}
                     \cup {[key |-> r.assigned[i],
                            vector |-> Embed(tasks[n].list_of_text[i])] :
                               i \in 1..Len(r.assigned)}
               /\ ingested' = Ingest(ingested, r.assigned, tasks[n].list_of_text)
               /\ calls' = [calls EXCEPT !.stats_seen = <<>>]
               /\ tasks' = [tasks EXCEPT ![n].line = 148, ![n].assigned = r.assigned]
          ELSE /\ tasks' = [tasks EXCEPT ![n].raised = TRUE]
               /\ UNCHANGED <<vectors, text_to_key, chunk_counter, inserted, ingested,
                              calls>>
    /\ op' = [name |-> "resume", task |-> n, ok |-> embed_ok]
    /\ UNCHANGED <<splitter, stats>>

NextAsync ==
    \/ \E t \in TextLists : \E m \in MetadataLists(Len(t)) : CallBuild(t, m)
    \/ \E n \in 1..Len(tasks), ok \in BOOLEAN : EmbeddingsReturn(n, ok)

SpecAsync == Init /\ [][NextAsync]_vars

\* ---- build_from_texts called on the store directly, the embedding call
\* returning or raising. raised says whether the call ended in the exception
\* of the embedding call, which the store does not catch; raised_before holds
\* the number of texts of the call before it if that call raised.
BuildCall(list_of_text, metadata_list, embed_ok) ==
    /\ chunk_counter + Len(list_of_text) <= MaxRecords
    /\ \E r \in {IF embed_ok
                  THEN abuild_from_list(vectors, text_to_key, chunk_counter,
                                        list_of_text, metadata_list)
                  ELSE abuild_from_list_raised(vectors, text_to_key, chunk_counter,
                                               list_of_text, metadata_list)} :
          /\ Len(r.vectors) <= MaxRecords
          /\ vectors' = Canonical(r.vectors)
          /\ text_to_key' = r.text_to_key
          /\ chunk_counter' = r.chunk_counter
          /\ inserted' =
                {p \in inserted : p.key \notin {r.assigned[i] : i \in 1..Len(r.assigned)}}
                \cup {[key |-> r.assigned[i], vector |-> Embed(list_of_text[i])] :
                          i \in 1..Len(r.assigned)}
          /\ ingested' = Ingest(ingested, r.assigned, list_of_text)
          /\ calls' = IF r.assigned = <<>> THEN calls
                      ELSE [calls EXCEPT !.stats_seen = <<>>]
          /\ op' = [name |-> "build_call", raised |-> ~embed_ok,
                    n_texts |-> Len(list_of_text), assigned |-> r.assigned,
                    raised_before |-> IF op.name = "build_call" /\ op.raised
                                      THEN <<op.n_texts>> ELSE <<>>]
    /\ UNCHANGED <<splitter, stats, tasks>>

NextFail ==
    \E t \in TextLists : \E m \in TextMetadataLists(Len(t)), ok \in BOOLEAN :
        BuildCall(t, m, ok)

SpecFail == Init /\ [][NextFail]_vars

\* ================================================================ claims
IsSearch == op.name = "search"
\* scores non-increasing from first to last: no result scores strictly higher
\* than one before it (a nan score compares with nothing); and non-decreasing
NonIncreasing(result) ==
    \A i, j \in 1..Len(result) : i < j => ~ScoreLT(result[i].score, result[j].score)
NonDecreasing(result) ==
    \A i, j \in 1..Len(result) : i < j => ~ScoreLT(result[j].score, result[i].score)
AllDefined(result) == \A i \in 1..Len(result) : ~result[i].score.nan
Place(key) == IndexOf(vectors, key)
IsZero(v) == \A i \in 1..Len(v) : v[i] = 0
\* no cosine score of the call is 0/0
NoZeroVector == /\ ~IsZero(op.query_vector)
                /\ \A i \in 1..Len(vectors) : ~IsZero(vectors[i].vector)
SortsDescending == op.distance_measure \in {PyNone, PyStr("cosine")}
SortsAscending == op.distance_measure \in {PyStr("euclidean"), PyStr("manhattan")}

\* C1 as stated: for every store, query vector and k >= 0, search with the metric
\* omitted or "cosine" returns scores that are non-increasing, and with
\* "euclidean" or "manhattan" scores that are non-decreasing.
C1_SortedForEveryStore ==
    IsSearch =>
        /\ SortsDescending => NonIncreasing(op.result)
        /\ SortsAscending => NonDecreasing(op.result)

\* C1 outside the failing case: the same, for the cosine case provided neither the query vector
\* nor a stored vector is the zero vector (whose cosine score is nan).
C1_SortedWhenScoresDefined ==
    IsSearch =>
        /\ (SortsDescending /\ NoZeroVector) =>
              AllDefined(op.result) /\ NonIncreasing(op.result)
        /\ SortsAscending => AllDefined(op.result) /\ NonDecreasing(op.result)

\* a cosine search whose two results stand in the store in the opposite order
C1_Witness ==
    /\ IsSearch /\ op.distance_measure = PyStr("cosine") /\ NoZeroVector
    /\ Len(op.result) = 2
    /\ ScoreLT(op.result[2].score, op.result[1].score)
    /\ Place(op.result[1].key) > Place(op.result[2].key)

\* C2 as stated: search returns at most k results, and when a filter value is
\* given every result's metadata file_type equals it.
C2_FilterForEveryValue ==
    IsSearch =>
        /\ Len(op.result) <= op.k
        /\ op.file_type_filter.tag = "str" =>
              \A i \in 1..Len(op.result) :
                  op.result[i].metadata.file_type = op.file_type_filter.val

\* C2 amended: search returns at most k results, and when a non-empty filter
\* value is given every result's metadata file_type equals it.
C2_FilterWhenNonEmpty ==
    IsSearch =>
        /\ Len(op.result) <= op.k
        /\ (op.file_type_filter.tag = "str" /\ op.file_type_filter.val # "") =>
              \A i \in 1..Len(op.result) :
                  op.result[i].metadata.file_type = op.file_type_filter.val

\* a filtered search that kept a record and left out one without the file type,
\* and was cut to k
C2_Witness ==
    /\ IsSearch /\ op.file_type_filter = PyStr("txt")
    /\ Len(op.result) = op.k /\ op.k = 1
    /\ \E i \in 1..Len(vectors) : vectors[i].metadata.file_type = Absent
    /\ Cardinality({i \in 1..Len(vectors) : vectors[i].metadata.file_type = "txt"}) >= 2

\* the records passing the filter: every record when no filter (or the empty
\* one) is given, else the records whose file_type equals the filter value
Passing(f) ==
    {i \in 1..Len(vectors) :
        f.tag = "None" \/ f.val = "" \/ vectors[i].metadata.file_type = f.val}
ResultKeys == {op.result[i].key : i \in 1..Len(op.result)}
NamedScore(i) ==
    CASE op.distance_measure = PyStr("cosine") ->
            cosine_similarity(op.query_vector, vectors[i].vector)
      [] op.distance_measure = PyStr("euclidean") ->
            euclidean_distance(op.query_vector, vectors[i].vector)
      [] op.distance_measure = PyStr("manhattan") ->
            manhattan_distance(op.query_vector, vectors[i].vector)
\* x scores strictly better than y under the metric of the call
Better(x, y) ==
    IF op.distance_measure = PyStr("cosine") THEN ScoreLT(y, x) ELSE ScoreLT(x, y)
NamedMetric ==
    op.distance_measure \in {PyStr("cosine"), PyStr("euclidean"), PyStr("manhattan")}
BestCandidates ==
    /\ Len(op.result) = Min(op.k, Cardinality(Passing(op.file_type_filter)))
    /\ \A r \in 1..Len(op.result) :
          /\ Place(op.result[r].key) \in Passing(op.file_type_filter)
          /\ op.result[r].score = NamedScore(Place(op.result[r].key))
    /\ \A i \in Passing(op.file_type_filter) :
          vectors[i].key \notin ResultKeys =>
              \A r \in 1..Len(op.result) : ~Better(NamedScore(i), op.result[r].score)
    /\ (op.distance_measure = PyStr("cosine") /\ op.k = 1 /\ Len(op.result) = 1) =>
          \A i \in Passing(op.file_type_filter) :
              ~ScoreLT(op.result[1].score, NamedScore(i))

\* C3 as stated: for a named metric and k >= 0, search returns exactly
\* min(k, number of records passing the filter) results and no passing record
\* left out scores strictly better than a returned one; with cosine and k = 1 the
\* result is a record of maximal cosine score.
C3_BestForEveryStore == (IsSearch /\ NamedMetric) => BestCandidates

\* C3 outside the failing case: the same, provided that for cosine neither the query vector nor
\* a stored vector is the zero vector.
C3_BestWhenScoresDefined ==
    (/\ IsSearch /\ NamedMetric
     /\ (op.distance_measure = PyStr("cosine") => NoZeroVector)) => BestCandidates

\* a cosine search with k = 1 over three records, the best of them stored last
C3_Witness ==
    /\ IsSearch /\ op.distance_measure = PyStr("cosine") /\ NoZeroVector
    /\ op.k = 1 /\ Len(op.result) = 1
    /\ Cardinality(Passing(op.file_type_filter)) = 3
    /\ Place(op.result[1].key) = 3
    /\ \A i \in 1..2 : ScoreLT(NamedScore(i), op.result[1].score)

\* C4 as stated: build_from_texts with N texts and N metadata entries assigns N
\* keys distinct from each other and from every key already in the store, and the
\* record of the i-th text has chunk_index = i, whether the metadata entries are
\* distinct objects or one object repeated.
C4_DistinctKeysAndIndices ==
    (/\ op.name = "build" /\ op.ok /\ op.metadata_given
     /\ op.n_metadata = op.n_texts) =>
        /\ Len(op.assigned) = op.n_texts
        /\ \A i, j \in 1..Len(op.assigned) : i # j => op.assigned[i] # op.assigned[j]
        /\ \A i \in 1..Len(op.assigned) : op.assigned[i] \notin op.keys_before
        /\ \A i \in 1..Len(op.assigned) :
              vectors[Place(op.assigned[i])].metadata.chunk_index = <<i - 1>>

\* the vector of the latest insert at key, <<>> when there was none
LatestInsert(key) ==
    IF \E p \in inserted : p.key = key
    THEN <<(CHOOSE p \in inserted : p.key = key).vector>>
    ELSE <<>>
AllKeys == {ChunkKey(n) : n \in 0..MaxRecords} \cup {UserKey}

\* C5: retrieve(key) returns the vector of the most recent insert at that key,
\* an insert at an existing key leaves the number of records as it was, and
\* retrieve on a key never inserted returns None and adds no record.
C5_RetrieveLatestInsert ==
    /\ \A key \in AllKeys : retrieve_from_key(vectors, key) = LatestInsert(key)
    /\ Len(vectors) = Cardinality({p.key : p \in inserted})
    /\ Keys(vectors) = {p.key : p \in inserted}
    /\ op.name = "retrieve" => op.result = LatestInsert(op.key)

\* an insert that replaced a different vector at its key
C5_Witness ==
    /\ op.name = "insert"
    /\ op.previous # <<>> /\ op.previous # <<op.vector>>
    /\ retrieve_from_key(vectors, op.key) = <<op.vector>>

CeilDiv(a, b) == (a + b - 1) \div b
\* the claim's windows: text[s : s + chunk_size] for s = 0, stride, 2*stride, ... < len(text)
Windows(text, chunk_size, stride) ==
    [j \in 1..CeilDiv(Len(text), stride) |->
        SubSeq(text, (j - 1) * stride + 1, Min((j - 1) * stride + chunk_size, Len(text)))]

\* C6: for chunk_size > chunk_overlap >= 0, split returns in order exactly the
\* windows text[s : s + chunk_size] at s = 0, stride, 2*stride, ... < len(text),
\* ceil(len(text) / stride) of them; "ABCDEFGHIJ" with 4 and 2 gives ABCD, CDEF,
\* EFGH, GHIJ, IJ.
C6_SplitWindows ==
    (op.name = "split" /\ op.self.chunk_overlap >= 0) =>
        /\ op.chunks = Windows(op.text, op.self.chunk_size,
                               op.self.chunk_size - op.self.chunk_overlap)
        /\ Len(op.chunks) = CeilDiv(Len(op.text),
                                    op.self.chunk_size - op.self.chunk_overlap)
        /\ (op.text = ExampleText /\ op.self.chunk_size = 4 /\ op.self.chunk_overlap = 2) =>
              op.chunks = << <<"A", "B", "C", "D">>, <<"C", "D", "E", "F">>,
                             <<"E", "F", "G", "H">>, <<"G", "H", "I", "J">>,
                             <<"I", "J">> >>

\* the split of the example text with chunk_size 4 and chunk_overlap 2
C6_Witness ==
    /\ op.name = "split" /\ op.text = ExampleText
    /\ op.self.chunk_size = 4 /\ op.self.chunk_overlap = 2
    /\ Len(op.chunks) = 5

\* C7 as stated: a text shorter than chunk_overlap yields exactly one window,
\* the whole text.
C7_ShortTextOneWindow ==
    (op.name = "split" /\ Len(op.text) < op.self.chunk_overlap) => op.chunks = <<op.text>>

\* C7 amended: for a non-empty text shorter than chunk_overlap the first window
\* is the whole text, and it is the only window exactly when the text is no
\* longer than the stride chunk_size - chunk_overlap; the empty text yields no
\* window.
C7_ShortTextFirstWindowWhole ==
    (op.name = "split" /\ Len(op.text) < op.self.chunk_overlap) =>
        IF op.text = <<>> THEN op.chunks = <<>>
        ELSE /\ Len(op.chunks) >= 1
             /\ op.chunks[1] = op.text
             /\ Len(op.chunks) = 1 <=>
                    Len(op.text) <= op.self.chunk_size - op.self.chunk_overlap

\* a split of a one-character text under chunk_size 4 and chunk_overlap 2: one window
C7_Witness ==
    /\ op.name = "split" /\ Len(op.text) = 1 /\ op.self.chunk_overlap = 2
    /\ op.self.chunk_size = 4
    /\ op.chunks = <<op.text>>

\* C8: constructing a splitter with chunk_size <= chunk_overlap always fails and
\* produces no object; with chunk_size > chunk_overlap it always succeeds.
C8_ConstructionFailsIffNotGreater ==
    /\ op.name = "construct" =>
          IF op.chunk_size <= op.chunk_overlap
          THEN op.raised # "" /\ op.obj = <<>>
          ELSE /\ op.raised = ""
               /\ op.obj = <<splitter>>
               /\ splitter.chunk_size = op.chunk_size
               /\ splitter.chunk_overlap = op.chunk_overlap
    /\ splitter.constructed => splitter.chunk_size > splitter.chunk_overlap

\* a construction with equal sizes that raised, a splitter made earlier still in hand
C8_Witness ==
    /\ op.name = "construct" /\ op.chunk_size = op.chunk_overlap
    /\ op.raised = "AssertionError" /\ splitter.constructed

\* C9 as stated: search with a metric name that is none of "cosine", "euclidean",
\* "manhattan" returns the same results, in the same order, as the same call
\* with "cosine".
C9_UnknownMetricLikeCosine ==
    (IsSearch /\ op.distance_measure = PyStr("dot")) =>
        op.result = search(vectors, op.query_vector, op.k, PyStr("cosine"),
                           op.file_type_filter)

\* C10 as stated: given a scoring function of the caller's, search orders the
\* results by descending score.
C10_CallableDescending ==
    (IsSearch /\ op.distance_measure.tag = "callable") => NonIncreasing(op.result)

\* C10 amended: given a scoring function of the caller's, search orders the
\* results by ascending score (lowest first).
C10_CallableAscending ==
    (IsSearch /\ op.distance_measure.tag = "callable") => NonDecreasing(op.result)

\* a search with the caller's dot-product score whose two results stand in the
\* store in the opposite order
C10_Witness ==
    /\ IsSearch /\ op.distance_measure = PyCallable("dot_product_score")
    /\ Len(op.result) = 2
    /\ ScoreLT(op.result[1].score, op.result[2].score)
    /\ Place(op.result[1].key) > Place(op.result[2].key)

\* ---- the texts ingested
\* the place in the history of the latest ingestion under key, 0 when there is none
LastIngestion(key) ==
    IF \E i \in 1..Len(ingested) : ingested[i].key = key
    THEN CHOOSE i \in 1..Len(ingested) :
            /\ ingested[i].key = key
            /\ \A j \in (i + 1)..Len(ingested) : ingested[j].key # key
    ELSE 0
IsSearchByText == op.name = "search_by_text" /\ ~op.raised

\* C11 as stated: every result of search_by_text carries as its text the chunk
\* text that was ingested under the result's key; the key itself stands as the
\* text only for a key never ingested through build_from_texts.
C11_ResultTextIsIngestedText ==
    IsSearchByText =>
        \A i \in 1..Len(op.result) :
            LET key == op.result[i].key IN
            IF LastIngestion(key) = 0 THEN op.result[i].text = key
            ELSE op.result[i].text = ingested[LastIngestion(key)].text

IngestedTexts == {ingested[i].text : i \in 1..Len(ingested)}
\* the key assigned by the latest ingestion of text
LatestKeyOf(text) ==
    ingested[CHOOSE i \in 1..Len(ingested) :
                /\ ingested[i].text = text
                /\ \A j \in (i + 1)..Len(ingested) : ingested[j].text # text].key

\* C17: after build_from_texts calls the reverse mapping holds at most one text
\* per key and only keys of the primary mapping; a text ingested more than once
\* resolves to the key of its latest ingestion while every earlier record stays
\* in the primary mapping, and the reverse mapping has as many entries as there
\* are distinct ingested texts.
C17_ReverseMappingLastWriteWins ==
    /\ \A i, j \in 1..Len(text_to_key) :
          text_to_key[i].value = text_to_key[j].value => i = j
    /\ \A i \in 1..Len(text_to_key) : text_to_key[i].value \in Keys(vectors)
    /\ Keys(text_to_key) = IngestedTexts
    /\ \A i \in 1..Len(text_to_key) :
          text_to_key[i].value = LatestKeyOf(text_to_key[i].key)
    /\ \A i \in 1..Len(ingested) :
          /\ ingested[i].key \in Keys(vectors)
          /\ retrieve_from_key(vectors, ingested[i].key) = <<Embed(ingested[i].text)>>
    /\ Len(vectors) = Len(ingested)
    /\ Len(text_to_key) = Cardinality(IngestedTexts)

\* a build that ingested again a text an earlier call had ingested: three
\* records, one reverse-mapping entry, resolving to the last key
C17_Witness ==
    /\ op.name = "build" /\ op.ok /\ op.n_texts = 1
    /\ Len(vectors) = 3 /\ Len(text_to_key) = 1
    /\ text_to_key[1].value = ChunkKey(2)

\* ---- the pipeline
IsIngest == op.name = "ingest"
\* the chunks the splitter makes of the documents of the call, per document
ChunkCount(content) == CeilDiv(Len(content), splitter.chunk_size - splitter.chunk_overlap)
ChunksOfCall == SumTo([d \in 1..Len(op.contents) |-> ChunkCount(op.contents[d])],
                      Len(op.contents))

\* C12: an ingest call in which the loader, the splitter or the embedding
\* collaborator fails returns success = false with an error text and leaves
\* every pipeline counter as it was; a successful ingest adds the number of
\* loaded documents and of created chunks to the counters, once.
C12_CountersOnlyOnSuccess ==
    IsIngest =>
        IF op.fail # "none" \/ ~op.loadable
        THEN /\ ~op.result.success
             /\ op.result.error # ""
             /\ stats = op.stats_before
        ELSE /\ op.result.success
             /\ stats.documents_processed =
                    op.stats_before.documents_processed + Len(op.contents)
             /\ stats.chunks_created = op.stats_before.chunks_created + ChunksOfCall
             /\ stats.queries_processed = op.stats_before.queries_processed

\* an ingest whose embedding call failed, after an ingest that had succeeded
C12_Witness ==
    /\ IsIngest /\ op.fail = "embedding" /\ ~op.result.success
    /\ stats.documents_processed > 0 /\ stats.chunks_created > 0

\* C13: every query call adds exactly one to queries_processed, whether it
\* succeeds or fails, and no other operation changes the counter: it equals
\* the number of query calls made.
C13_QueriesCounted ==
    /\ stats.queries_processed = calls.query
    /\ IsIngest => stats.queries_processed = op.stats_before.queries_processed

\* a second query, failing in the generation collaborator, on a filled store
C13_Witness ==
    /\ op.name = "query" /\ op.fail = "generation" /\ ~op.result.success
    /\ calls.query = 2 /\ calls.ingest > 0

\* the ranked search results behind the query of op
Ranked ==
    search(vectors, get_embedding(op.user_query), op.k,
           IF Truthy(op.distance_metric) THEN op.distance_metric ELSE PyStr("cosine"),
           op.file_type_filter)

\* C14: a successful query returns context, relevance_scores and sources of one
\* length, min(k, number of records passing the filter), the i-th entry of each
\* made from the i-th ranked search result; the generation collaborator is
\* invoked once per successful query and not at all when retrieval fails.
C14_QueryLists ==
    op.name = "query" =>
        /\ op.result.success =>
              /\ Len(op.result.context) = Min(op.k, Cardinality(Passing(op.file_type_filter)))
              /\ Len(op.result.relevance_scores) = Len(op.result.context)
              /\ Len(op.result.sources) = Len(op.result.context)
              /\ Len(Ranked) = Len(op.result.context)
              /\ \A i \in 1..Len(Ranked) :
                    /\ op.result.context[i] = text_content(text_to_key, Ranked[i].key)
                    /\ op.result.relevance_scores[i] = format_3f(Ranked[i].score)
                    /\ op.result.sources[i] = source_label(Ranked[i].metadata)
              /\ op.generated = 1
        /\ op.fail = "embedding" => op.generated = 0 /\ ~op.result.success

\* one document split into 3 chunks ingested, then a query with k = 2
C14_Witness ==
    /\ op.name = "query" /\ op.result.success /\ op.k = 2
    /\ calls.ingest = 1 /\ Len(vectors) = 3
    /\ \A i, j \in 1..Len(vectors) :
          vectors[i].metadata.filename = vectors[j].metadata.filename
    /\ Len(op.result.relevance_scores) = 2

\* the records of one source document: same filename and content hash
SameDocument(i, j) ==
    /\ vectors[i].metadata.filename = vectors[j].metadata.filename
    /\ vectors[i].metadata.content_hash = vectors[j].metadata.content_hash
\* the chunks assigned before those of the d-th document of the call
ChunksBefore(d) ==
    SumTo([e \in 1..(d - 1) |-> ChunkCount(op.contents[e])], d - 1)

\* C16 as stated: after pipeline ingest calls no two records of the same source
\* document carry the same chunk_index, and the chunks of each document carry
\* the indices 0..N-1 in emission order.
C16_ChunkIndexPerDocument ==
    /\ \A i, j \in 1..Len(vectors) :
          (i # j /\ SameDocument(i, j)) =>
              vectors[i].metadata.chunk_index # vectors[j].metadata.chunk_index
    /\ (IsIngest /\ op.result.success) =>
          \A d \in 1..Len(op.contents) : \A n \in 1..ChunkCount(op.contents[d]) :
              vectors[Place(op.assigned[ChunksBefore(d) + n])].metadata.chunk_index
                  = <<n - 1>>

\* C20: with the store mutated only by the pipeline's sequential ingest calls,
\* the key set is {chunk_0, ..., chunk_(c-1)}, c being the key counter, and c
\* equals the number of records and the chunks_created counter.
C20_KeysContiguous ==
    /\ Keys(vectors) = {<<"chunk_", n>> : n \in 0..(chunk_counter - 1)}
    /\ chunk_counter = Len(vectors)
    /\ chunk_counter = stats.chunks_created

\* a failed ingest after one that succeeded and a query, several records stored
C20_Witness ==
    /\ IsIngest /\ ~op.result.success /\ calls.ingest = 1 /\ calls.query > 0
    /\ chunk_counter > 1

\* ---------------------------------------------------------------- C15
ReadOps == {"search", "search_by_text", "retrieve", "stats", "query", "compare"}
RECURSIVE SumOver(_, _)
SumOver(f, dom) ==
    IF dom = {} THEN 0
    ELSE LET t == CHOOSE x \in dom : TRUE IN f[t] + SumOver(f, dom \ {t})
\* C15: a step of search, search_by_text, retrieve_from_key, get_database_stats,
\* query or compare_distance_metrics, failing or not, leaves the records with
\* their keys and order, the reverse mapping and the key counter as they were;
\* get_database_stats returns what the call before it returned when no insertion
\* came between, total_vectors is the number of records and the per-file-type
\* counts sum to it.
C15_ReadsLeaveStore ==
    [][op'.name \in ReadOps =>
          /\ vectors' = vectors
          /\ text_to_key' = text_to_key
          /\ chunk_counter' = chunk_counter
          /\ op'.name = "stats" =>
                /\ op'.result.total_vectors = Len(vectors)
                /\ SumOver(op'.result.file_types, DOMAIN op'.result.file_types)
                      = op'.result.total_vectors
                /\ op'.previous # <<>> => op'.result = op'.previous[1]]_vars
\* a second get_database_stats call on a store of two file types with no
\* insertion since the first, queries having been made
C15_Witness ==
    /\ op.name = "stats"
    /\ op.previous # <<>>
    /\ Cardinality(DOMAIN op.result.file_types) = 2
    /\ calls.query > 0
\* retrieve_from_key of a key the non-empty store does not hold
C15_WitnessUnknownKey ==
    /\ op.name = "retrieve"
    /\ op.result = <<>>
    /\ vectors # <<>>
\* ---------------------------------------------------------------- C18
AllReturned == \A n \in 1..Len(tasks) : tasks[n].line = 148
AssignedKeys == {ingested[i].key : i \in 1..Len(ingested)}
SameKeyTwice == \E i, j \in 1..Len(ingested) : i # j /\ ingested[i].key = ingested[j].key
\* C18: with two build_from_texts calls stepping through lines 129, 130, 143
\* and 146 in any interleaving, the store holds one record per key assigned,
\* the record under a key is the one inserted last under it, and once a key was
\* assigned to two chunks the store holds fewer records than texts ingested.
C18_SameKeyOverwrites ==
    /\ Keys(vectors) = AssignedKeys
    /\ Len(vectors) = Cardinality(AssignedKeys)
    /\ \A i \in 1..Len(vectors) :
          vectors[i].vector = Embed(ingested[LastIngestion(vectors[i].key)].text)
    /\ SameKeyTwice => Len(vectors) < Len(ingested)
\* both calls returned, the chunks "A" of one and "B" of the other were given
\* the same key, and the store holds one record for the two texts
C18_Witness ==
    /\ Len(tasks) = 2
    /\ AllReturned
    /\ \E i, j \in 1..Len(ingested) :
          /\ ingested[i].key = ingested[j].key
          /\ ingested[i].text # ingested[j].text
    /\ Len(vectors) < Len(ingested)
    /\ Len(vectors) < chunk_counter
\* ---------------------------------------------------------------- C19
\* two calls were made, each with a metadata entry per text, and both returned
BothReturned ==
    /\ Len(tasks) = 2
    /\ \A n \in 1..2 :
          /\ tasks[n].line = 148
          /\ tasks[n].metadata_list.given
          /\ Len(tasks[n].metadata_list.entries) = Len(tasks[n].list_of_text)
\* the keys of call n are chunk_b .. chunk_(b+N-1) for a counter value b
ContiguousKeys(n) ==
    \E b \in 0..MaxRecords :
        tasks[n].assigned = [i \in 1..Len(tasks[n].list_of_text) |-> ChunkKey(b + i - 1)]
\* the keys of two cooperatively interleaved calls: N1+N2 records under N1+N2
\* distinct keys, a contiguous counter range per call
KeysOfBothCalls ==
    BothReturned =>
        /\ Len(vectors) = Len(tasks[1].list_of_text) + Len(tasks[2].list_of_text)
        /\ Cardinality(Keys(vectors)) = Len(vectors)
        /\ \A n \in 1..2 : ContiguousKeys(n)
\* C19 as stated: whichever of two cooperatively interleaved build_from_texts
\* calls is resumed first, the store ends with N1+N2 records under N1+N2
\* distinct keys, the keys of each call are a contiguous counter range, and the
\* record of the i-th text of each call has chunk_index = i (0-based).
C19_CooperativeCallsKeepKeysAndIndices ==
    BothReturned =>
        /\ KeysOfBothCalls
        /\ \A n \in 1..2 : \A i \in 1..Len(tasks[n].assigned) :
              vectors[Place(tasks[n].assigned[i])].metadata.chunk_index = <<i - 1>>
\* the second call made returned before the first
ResumedOutOfOrder ==
    /\ BothReturned
    /\ tasks[1].assigned # <<>> /\ tasks[2].assigned # <<>>
    /\ tasks[2].assigned[1] = ChunkKey(0)
\* ---------------------------------------------------------------- C21
\* C21: a build_from_texts call whose embedding call raises ends in that
\* exception and leaves the records, the reverse mapping and the key counter
\* as they were; a call that returns assigns the keys that follow the last key
\* assigned by a call that returned, whatever calls raised in between.
C21_FailedBuildLeavesStore ==
    [][op'.name = "build_call" =>
          /\ op'.raised =>
                /\ vectors' = vectors
                /\ text_to_key' = text_to_key
                /\ chunk_counter' = chunk_counter
                /\ op'.assigned = <<>>
          /\ ~op'.raised =>
                op'.assigned = [i \in 1..op'.n_texts |->
                                  <<"chunk_", Len(ingested) + i - 1>>]]_vars
\* a call that returned and assigned keys, made right after a call with texts
\* to store raised, on a store that already held a record
C21_Witness ==
    /\ op.name = "build_call"
    /\ ~op.raised
    /\ op.raised_before # <<>>
    /\ op.raised_before[1] > 0
    /\ op.assigned # <<>>
    /\ op.assigned[1] # <<"chunk_", 0>>
====
